---- MODULE Spec2Model ----
(***************************************************************************)
(* naaw: a tagging daemon for the bspwm window manager (src/main.rs).      *)
(*                                                                         *)
(* Three producer threads (the node_add adapter, the node_remove adapter   *)
(* and the client listener) send Events over one mpsc channel; the server  *)
(* loop receives them one at a time, applies them to state::State and runs *)
(* bspc commands.  Strings are modelled as sequences of one-character      *)
(* strings, so a Node is the sequence of the characters of its id.         *)
(***************************************************************************)
EXTENDS Naturals, Sequences, FiniteSets

(***************************************************************************)
(* Bounds of the model.                                                    *)
(***************************************************************************)
\* number of distinct node ids the window manager and the clients use
MaxNodes == 2
\* number of events sent on the channel in one run
MaxEvents == 4
\* number of events pending in the channel at a time
MaxPending == 2
\* number of events sent in one run of the specification with fairness
MaxLiveEvents == 2
\* number of connections waiting for the listener, or whose event was sent,
\* in one run of the specification of the listener
MaxConns == 2
\* number of lines the subscriptions deliver (and of events clients add to
\* them) in one run of the specification of the adapters
MaxLines == 2
\* the border width bspwm is configured with, as `bspc config border_width`
\* reports it
DefaultBorderWidth == 1

Digits == <<"1", "2", "3", "4", "5", "6", "7", "8", "9">>
\* the node ids of the environment: one-character ids "1", "2", ...
Nodes == {<<Digits[i]>> : i \in 1..MaxNodes}

(***************************************************************************)
(* String helpers (std::str).                                              *)
(***************************************************************************)
\* the first k characters of s (all of s when it is shorter)
Take(s, k) == SubSeq(s, 1, IF k < Len(s) THEN k ELSE Len(s))
\* s without its first k characters
Drop(s, k) == SubSeq(s, k + 1, Len(s))

\* a prefix test that compares the lengths only
strip_prefix_any(s, p) == <<Len(s) >= Len(p), Drop(s, Len(p))>>

\* str::strip_prefix: <<TRUE, rest>> when s starts with p, else <<FALSE, <<>>>>
strip_prefix(s, p) ==
    IF Len(s) >= Len(p) /\ Take(s, Len(p)) = p
    THEN <<TRUE, Drop(s, Len(p))>>
    ELSE <<FALSE, <<>>>>

\* str::split(' '): the fields between single spaces; never empty, the
\* empty string splits into one empty field
RECURSIVE split(_)
split(s) ==
    IF \A i \in 1..Len(s) : s[i] # " "
    THEN <<s>>
    ELSE LET i == CHOOSE j \in 1..Len(s) :
                      s[j] = " " /\ \A k \in 1..(j - 1) : s[k] # " "
         IN <<Take(s, i - 1)>> \o split(Drop(s, i))

\* Iterator::nth on the fields (0-based): <<TRUE, field>> or <<FALSE, <<>>>>
nth(fields, n) ==
    IF n + 1 <= Len(fields) THEN <<TRUE, fields[n + 1]>> ELSE <<FALSE, <<>>>>

\* the fields joined by single spaces (what bspc prints)
RECURSIVE join(_)
join(fields) ==
    IF Len(fields) = 0 THEN <<>>
    ELSE IF Len(fields) = 1 THEN fields[1]
    ELSE fields[1] \o <<" ">> \o join(Tail(fields))

(***************************************************************************)
(* BspcSubCommand                                                          *)
(***************************************************************************)
BspcSubCommand == {"NodeAdd", "NodeRemove"}

\* the two positions exchanged
node_position_swapped(sub_command) ==
    IF sub_command = "NodeAdd" THEN 3 ELSE 4

node_position(sub_command) ==
    IF sub_command = "NodeAdd" THEN 4 ELSE 3

(***************************************************************************)
(* mod state                                                               *)
(***************************************************************************)
\* State::new
State_new ==
    [tagged_nodes |-> {}, untagged_nodes |-> {}, tag_shown |-> TRUE]

\* State::add_node
add_node(s, node) ==
    [s EXCEPT !.untagged_nodes = @ \cup {node}]

\* remove_node forgetting the tagged set
remove_node_untagged_only(s, node) ==
    [s EXCEPT !.untagged_nodes = @ \ {node}]

\* remove_node forgetting the untagged set
remove_node_tagged_only(s, node) ==
    [s EXCEPT !.tagged_nodes = @ \ {node}]

\* State::remove_node
remove_node(s, node) ==
    [s EXCEPT !.tagged_nodes = @ \ {node}, !.untagged_nodes = @ \ {node}]

\* toggle_tag dropping the node it untags instead of keeping it as untagged
toggle_tag_drops(s, node) ==
    IF node \in s.tagged_nodes
    THEN [state  |-> [s EXCEPT !.tagged_nodes = @ \ {node}],
          status |-> "Untagged"]
    ELSE [state  |-> [s EXCEPT !.untagged_nodes = @ \ {node},
                               !.tagged_nodes = @ \cup {node}],
          status |-> "Tagged"]

\* State::toggle_tag: the new state and the TagStatus it returns
toggle_tag(s, node) ==
    IF node \in s.tagged_nodes
    THEN [state  |-> [s EXCEPT !.tagged_nodes = @ \ {node},
                               !.untagged_nodes = @ \cup {node}],
          status |-> "Untagged"]
    ELSE [state  |-> [s EXCEPT !.untagged_nodes = @ \ {node},
                               !.tagged_nodes = @ \cup {node}],
          status |-> "Tagged"]

\* State::is_tag_shown
is_tag_shown(s) == s.tag_shown

\* toggle_tag_visibility forgetting to flip tag_shown
toggle_tag_visibility_keeps(s) ==
    [state |-> s, nodes |-> s.tagged_nodes]

\* State::toggle_tag_visibility: the new state and the nodes it iterates
toggle_tag_visibility(s) ==
    [state |-> [s EXCEPT !.tag_shown = ~@],
     nodes |-> s.tagged_nodes]

(***************************************************************************)
(* Event                                                                   *)
(***************************************************************************)
NoNode == <<>>
AddNode(node)    == [type |-> "AddNode", node |-> node]
RemoveNode(node) == [type |-> "RemoveNode", node |-> node]
TagNode(node)    == [type |-> "TagNode", node |-> node]
ShowTag          == [type |-> "ShowTag", node |-> NoNode]

\* Event::from_bspc
from_bspc(sub_command, node_id) ==
    IF sub_command = "NodeAdd" THEN AddNode(node_id) ELSE RemoveNode(node_id)

(***************************************************************************)
(* bspc commands.  A command is what the dispatcher hands to               *)
(* Command::new("bspc"); its outcome is the environment's: "ok", a         *)
(* non-zero exit ("exit_failure": output() still returns Ok and the        *)
(* command has no effect) or a failure to run bspc at all ("spawn_error":  *)
(* output() returns Err and the unwrap panics).                            *)
(***************************************************************************)
Outcomes == {"ok", "exit_failure", "spawn_error"}

\* the border width of a tagged node
TaggedBorderWidth == 3

\* bspc node <node> -g hidden
bspc_toggle_visibility(node) ==
    <<[kind |-> "node_hidden", node |-> node, width |-> 0]>>

\* bspc config -n <node> border_width <width>
bspc_set_border_width(node, width) ==
    <<[kind |-> "config_node_border_width", node |-> node, width |-> width]>>

\* bspc config border_width, then bspc_set_border_width with the width
\* parsed from its standard output
bspc_reset_border_width(node, default_border_width) ==
    <<[kind |-> "config_border_width", node |-> NoNode, width |-> 0]>>
        \o bspc_set_border_width(node, default_border_width)

\* whether the call that runs cmd panics on this outcome: every call
\* unwraps output(); bspc_reset_border_width also unwraps the parse of the
\* standard output, which holds no number when bspc failed
panics(cmd, outcome) ==
    \/ outcome = "spawn_error"
    \/ cmd.kind = "config_border_width" /\ outcome = "exit_failure"

\* the commands of script actually run: all of them, or those up to and
\* including the first one whose call panics
run(script, outcomes) ==
    LET bad == {i \in 1..Len(script) : panics(script[i], outcomes[i])}
        n   == IF bad = {} THEN Len(script)
               ELSE CHOOSE i \in bad : \A j \in bad : i <= j
    IN [cmds     |-> SubSeq(script, 1, n),
        ok       |-> {i \in 1..n : outcomes[i] = "ok"},
        panicked |-> bad # {}]

\* the nodes whose hidden flag the window manager flipped: those of the
\* node_hidden commands that succeeded (r is what run returns)
flipped(r) ==
    {r.cmds[i].node : i \in {j \in r.ok : r.cmds[j].kind = "node_hidden"}}

\* the orders in which a HashSet's iterator may yield its elements
iter(S) ==
    {f \in [1..Cardinality(S) -> S] : \A i, j \in 1..Cardinality(S) : f[i] = f[j] => i = j}

RECURSIVE concat(_)
concat(seqs) ==
    IF Len(seqs) = 0 THEN <<>> ELSE Head(seqs) \o concat(Tail(seqs))

(***************************************************************************)
(* fn server: one iteration of `for state_change in &rx`.                  *)
(***************************************************************************)
\* the State after the match arm's call into mod state
server_state(ev, s) ==
    CASE ev.type = "AddNode"    -> add_node(s, ev.node)
      [] ev.type = "RemoveNode" -> remove_node(s, ev.node)
      [] ev.type = "TagNode"    -> toggle_tag(s, ev.node).state
      [] ev.type = "ShowTag"    -> toggle_tag_visibility(s).state

\* the command sequences the match arm may run, s being the State before
\* the arm: one per iteration order of the tagged nodes
server_commands(ev, s) ==
    CASE ev.type = "AddNode"    -> {<<>>}
      [] ev.type = "RemoveNode" -> {<<>>}
      [] ev.type = "TagNode"    ->
            IF toggle_tag(s, ev.node).status = "Tagged"
            THEN {bspc_set_border_width(ev.node, TaggedBorderWidth)
                    \o (IF ~is_tag_shown(toggle_tag(s, ev.node).state)
                        THEN bspc_toggle_visibility(ev.node) ELSE <<>>)}
            ELSE {bspc_reset_border_width(ev.node, DefaultBorderWidth)}
      [] ev.type = "ShowTag"    ->
            {concat([i \in DOMAIN order |-> bspc_toggle_visibility(order[i])]) :
                order \in iter(toggle_tag_visibility(s).nodes)}

(***************************************************************************)
(* The producers' inputs.                                                  *)
(***************************************************************************)
\* BspcSubCommand::name
name(sub_command) ==
    IF sub_command = "NodeAdd"
    THEN <<"n", "o", "d", "e", "_", "a", "d", "d">>
    ELSE <<"n", "o", "d", "e", "_", "r", "e", "m", "o", "v", "e">>

\* the fields of the line bspc prints for a notification about node n:
\* node_add <monitor> <desktop> <ip> <node>, node_remove <monitor> <desktop> <node>
bspc_fields(sub_command, n) ==
    IF sub_command = "NodeAdd"
    THEN <<name(sub_command), <<"m">>, <<"d">>, <<"i">>, n>>
    ELSE <<name(sub_command), <<"m">>, <<"d">>, n>>

\* the lines an adapter may read: the line of a notification, whole, cut
\* short before the node's field, or empty
Lines(sub_command) ==
    {join(Take(bspc_fields(sub_command, n), k)) :
        n \in Nodes,
        k \in {0, node_position(sub_command), node_position(sub_command) + 1}}

SHOW == <<"s", "h", "o", "w">>
TAG  == <<"t", "a", "g", " ">>

\* the payloads a client may write before it closes the connection
Payloads ==
    {SHOW} \cup {TAG \o n : n \in Nodes}
        \cup {<<>>, <<"t", "a", "g">>, SHOW \o <<" ">>}

(***************************************************************************)
(* The producers' handlers.                                                *)
(***************************************************************************)
\* subscribe_bspc, the body of the loop for one line read without error:
\* the events it sends (none when the field is missing)
bspc_line(sub_command, line) ==
    LET node_id == nth(split(line), node_position(sub_command))
    IN IF node_id[1] THEN <<from_bspc(sub_command, node_id[2])>> ELSE <<>>

\* a handler that takes every payload starting with `show` for `show`
handle_client_stream_loose(message) ==
    IF Take(message, Len(SHOW)) = SHOW THEN <<ShowTag>>
    ELSE IF strip_prefix(message, TAG)[1]
         THEN <<TagNode(strip_prefix(message, TAG)[2])>>
         ELSE <<>>

\* handle_client_stream, after the payload was read: the events it sends
\* (none for an unsupported message)
handle_client_stream(message) ==
    IF message = SHOW THEN <<ShowTag>>
    ELSE IF strip_prefix(message, TAG)[1]
         THEN <<TagNode(strip_prefix(message, TAG)[2])>>
         ELSE <<>>

\* what an adapter sends for the lines it may read
bspc_sends ==
    [sub_command \in BspcSubCommand |->
        {bspc_line(sub_command, line) : line \in Lines(sub_command)}]

\* what the listener sends for the payloads it may read
client_sends ==
    {handle_client_stream(message) : message \in Payloads}

(***************************************************************************)
(* The state of the server process.                                        *)
(***************************************************************************)
Producers == {"NodeAdd", "NodeRemove", "Client"}

VARIABLES
    state,       \* state::State, owned by the server loop
    chan,        \* the mpsc channel: the messages sent and not yet received
    dispatcher,  \* the main thread: "binding" (before the loop), "running"
                 \* (in the loop), "panicked" or "returned"
    producer,    \* each producer thread: "starting" (an adapter before its
                 \* subprocess is spawned), "unbound" (the listener before
                 \* the socket is bound), "running", "panicked" or "done"
    hidden,      \* window manager: the nodes whose hidden flag is set
    failed,      \* history: whether some bspc command did not succeed
    last,        \* history: the loop's latest iteration
    last2,       \* history: the iteration before it
    known,       \* history: the nodes added and not removed since
    requested,   \* history: the nodes a tag request named, not removed since
    nSent,       \* history: how many events were sent on the channel
    nApplied,    \* history: how many events the loop has applied
    evenShows,   \* history: whether an even number of ShowTag was applied
    busy,        \* the server loop is inside a match arm, running commands
    exists,      \* window manager: the nodes that exist
    pipe,        \* the standard output of each bspc subscribe: lines unread
    lastNote,    \* history: the last notification delivered about each node
    lastLine,    \* history: the line an adapter handled last, what it sent,
                 \* and what became of the line the same adapter handled
                 \* before it
    conns,       \* the socket: the connections made and not yet handled
    lastConn     \* history: the connection handled last, what was sent

\* the subscriptions' side, as far as a specification tracks it
wmVars == <<exists, pipe, lastNote, lastLine>>

\* the socket's side, as far as a specification tracks it
connVars == <<conns, lastConn>>

vars == <<state, chan, dispatcher, producer, hidden, failed, last, last2,
          known, requested, nSent, nApplied, evenShows, busy, wmVars, connVars>>

NoLine ==
    [sub_command |-> "None", read |-> FALSE, line |-> <<>>, sent |-> <<>>,
     prev |-> "none"]
NoConn == [read |-> FALSE, message |-> <<>>, sent |-> <<>>, prev |-> "none"]

NoStep ==
    [ev |-> [type |-> "None", node |-> NoNode], seq |-> 0, pre |-> State_new,
     cmds |-> <<>>, panicked |-> FALSE]

Init ==
    /\ state = State_new
    /\ chan = <<>>
    /\ dispatcher = "running"
    /\ producer = [p \in Producers |-> "running"]
    /\ hidden = {}
    /\ failed = FALSE
    /\ last = NoStep
    /\ last2 = NoStep
    /\ known = {}
    /\ requested = {}
    /\ nSent = 0
    /\ nApplied = 0
    /\ evenShows = TRUE
    /\ busy = FALSE
    /\ exists = {}
    /\ pipe = [sub_command \in BspcSubCommand |-> <<>>]
    /\ lastNote = [n \in Nodes |-> "none"]
    /\ lastLine = NoLine
    /\ conns = <<>>
    /\ lastConn = NoConn

\* a send that waits until the channel is empty and the dispatcher idle
send_rendezvous(p, evs) ==
    IF evs = <<>>
    THEN UNCHANGED <<chan, nSent>>
    ELSE /\ nSent < MaxEvents
         /\ chan = <<>>
         /\ ~busy
         /\ chan' = Append(chan, [ev |-> evs[1], from |-> p, seq |-> nSent + 1,
                                  while_busy |-> busy])
         /\ nSent' = nSent + 1

\* Sender::send of the events evs (at most one) by producer p; each message
\* carries, as history, its sender, its number on the channel and whether
\* the dispatcher was executing commands when it was sent
send(p, evs) ==
    IF evs = <<>>
    THEN UNCHANGED <<chan, nSent>>
    ELSE /\ nSent < MaxEvents
         /\ Len(chan) < MaxPending
         /\ chan' = Append(chan, [ev |-> evs[1], from |-> p, seq |-> nSent + 1,
                                  while_busy |-> busy])
         /\ nSent' = nSent + 1

\* the process lives until the main thread panics or returns
ProcessAlive == dispatcher \in {"binding", "running"}

\* subscribe_bspc: one iteration of the loop over the subprocess's lines
subscribe_bspc(sub_command) ==
    /\ ProcessAlive
    /\ producer[sub_command] = "running"
    /\ \/ \E evs \in bspc_sends[sub_command] : send(sub_command, evs)
       \/ send(sub_command, <<>>)      \* the line could not be read: continue
    /\ UNCHANGED <<state, dispatcher, producer, hidden, failed, last, last2,
                   known, requested, nApplied, evenShows, busy, wmVars, connVars>>

\* subscribe_client: one connection accepted and handled inline
subscribe_client ==
    /\ ProcessAlive
    /\ producer["Client"] = "running"
    /\ \/ /\ \E evs \in client_sends : send("Client", evs)
          /\ UNCHANGED producer
       \/ \* read_to_string fails: the unwrap panics the listener thread
          /\ send("Client", <<>>)
          /\ producer' = [producer EXCEPT !["Client"] = "panicked"]
    /\ UNCHANGED <<state, dispatcher, hidden, failed, last, last2,
                   known, requested, nApplied, evenShows, busy, wmVars, connVars>>

\* a receive that hands out the newest message
recv_newest(c) == c[Len(c)]

\* the message the loop receives next: the oldest in the channel
recv(c) == Head(c)

\* server: one iteration of the loop over the channel
server_iteration ==
    /\ dispatcher = "running"
    /\ chan # <<>>
    /\ LET msg == recv(chan)
           ev  == msg.ev
       IN \E script \in server_commands(ev, state) :
          \E outcomes \in [1..Len(script) -> Outcomes] :
             LET r == run(script, outcomes)
             IN /\ state' = server_state(ev, state)
                /\ chan' = Tail(chan)
                /\ hidden' = (hidden \ flipped(r)) \cup (flipped(r) \ hidden)
                /\ failed' = (failed \/ r.ok # DOMAIN r.cmds)
                /\ dispatcher' = IF r.panicked THEN "panicked" ELSE "running"
                /\ last' = [ev |-> ev, seq |-> msg.seq, pre |-> state,
                            cmds |-> r.cmds, panicked |-> r.panicked]
                /\ last2' = last
                /\ known' = CASE ev.type = "AddNode"    -> known \cup {ev.node}
                               [] ev.type = "RemoveNode" -> known \ {ev.node}
                               [] OTHER                  -> known
                /\ requested' = CASE ev.type = "TagNode"    -> requested \cup {ev.node}
                                   [] ev.type = "RemoveNode" -> requested \ {ev.node}
                                   [] OTHER                  -> requested
                /\ nApplied' = nApplied + 1
                /\ evenShows' = IF ev.type = "ShowTag" THEN ~evenShows ELSE evenShows
    /\ UNCHANGED <<producer, nSent, wmVars, connVars>>

\* server: one iteration of the loop, taken as one step
server ==
    /\ server_iteration
    /\ UNCHANGED busy

Next ==
    \/ \E sub_command \in BspcSubCommand : subscribe_bspc(sub_command)
    \/ subscribe_client
    \/ server

Spec == Init /\ [][Next]_vars

(***************************************************************************)
(* The adapters in detail: the window manager's notifications, the pipes   *)
(* of the two bspc subscribe subprocesses, the start and the end of the    *)
(* threads and of the server loop.                                         *)
(***************************************************************************)
InitWm ==
    /\ state = State_new
    /\ chan = <<>>
    /\ dispatcher = "binding"
    /\ producer = [p \in Producers |-> IF p = "Client" THEN "unbound" ELSE "starting"]
    /\ hidden = {}
    /\ failed = FALSE
    /\ last = NoStep
    /\ last2 = NoStep
    /\ known = {}
    /\ requested = {}
    /\ nSent = 0
    /\ nApplied = 0
    /\ evenShows = TRUE
    /\ busy = FALSE
    /\ exists = {}
    /\ pipe = [sub_command \in BspcSubCommand |-> <<>>]
    /\ lastNote = [n \in Nodes |-> "none"]
    /\ lastLine = NoLine
    /\ conns = <<>>
    /\ lastConn = NoConn

coreVars == <<state, hidden, failed, last, last2, known, requested, nApplied,
              evenShows, busy>>

\* the nodes the window manager adds and removes in this specification
WmNodes == {<<Digits[1]>>}

\* the lines delivered and unread plus the events sent stay within MaxLines
WmBudget ==
    nSent + Len(pipe["NodeAdd"]) + Len(pipe["NodeRemove"]) < MaxLines

\* subscribe_bspc: the thread spawns `bspc subscribe <name>`; the unwraps
\* of spawn() and of stdout panic the thread, and only the thread
bspc_spawn(sub_command) ==
    /\ ProcessAlive
    /\ producer[sub_command] = "starting"
    /\ \E spawned \in BOOLEAN :
          producer' = [producer EXCEPT
                          ![sub_command] = IF spawned THEN "running" ELSE "panicked"]
    /\ UNCHANGED <<coreVars, chan, dispatcher, nSent, wmVars, connVars>>

\* subscribe_client up to thread::spawn: the socket is bound on the main
\* thread, whose unwrap panics it, and with it the process
server_bind ==
    /\ dispatcher = "binding"
    /\ \E bound \in BOOLEAN :
          IF bound
          THEN /\ dispatcher' = "running"
               /\ producer' = [producer EXCEPT !["Client"] = "running"]
          ELSE /\ dispatcher' = "panicked"
               /\ UNCHANGED producer
    /\ UNCHANGED <<coreVars, chan, nSent, wmVars, connVars>>

\* the window manager adds or removes node n and tells the subscription of
\* that kind, if there is one
wm_notify(sub_command, n) ==
    /\ dispatcher = "running"
    /\ WmBudget
    /\ IF sub_command = "NodeAdd" THEN n \notin exists ELSE n \in exists
    /\ exists' = IF sub_command = "NodeAdd" THEN exists \cup {n} ELSE exists \ {n}
    /\ IF producer[sub_command] = "running"
       THEN /\ pipe' = [pipe EXCEPT ![sub_command] =
                          Append(@, [read |-> TRUE,
                                     line |-> join(bspc_fields(sub_command, n))])]
            /\ lastNote' = [lastNote EXCEPT ![n] = sub_command]
       ELSE UNCHANGED <<pipe, lastNote>>
    /\ UNCHANGED <<coreVars, chan, dispatcher, producer, nSent, lastLine, connVars>>

\* a subscription's output holds a line that is cut short, or that cannot
\* be read as text
wm_garbage(sub_command) ==
    /\ dispatcher = "running"
    /\ WmBudget
    /\ producer[sub_command] = "running"
    /\ \E entry \in {[read |-> FALSE, line |-> <<>>]}
                    \cup {[read |-> TRUE, line |-> l] :
                            l \in {x \in Lines(sub_command) :
                                     ~nth(split(x), node_position(sub_command))[1]}} :
          pipe' = [pipe EXCEPT ![sub_command] = Append(@, entry)]
    /\ UNCHANGED <<coreVars, chan, dispatcher, producer, nSent, exists, lastNote,
                   lastLine, connVars>>

\* subscribe_bspc: one iteration of the loop, on the oldest unread line
bspc_read(sub_command) ==
    /\ ProcessAlive
    /\ producer[sub_command] = "running"
    /\ pipe[sub_command] # <<>>
    /\ LET entry == Head(pipe[sub_command])
           evs   == IF entry.read THEN bspc_line(sub_command, entry.line) ELSE <<>>
       IN /\ send(sub_command, evs)
          /\ lastLine' = [sub_command |-> sub_command, read |-> entry.read,
                          line |-> entry.line, sent |-> evs,
                          prev |-> CASE lastLine.sub_command # sub_command -> "none"
                                     [] lastLine.sent = <<>> -> "skipped"
                                     [] OTHER -> "sent"]
    /\ pipe' = [pipe EXCEPT ![sub_command] = Tail(@)]
    /\ UNCHANGED <<coreVars, dispatcher, producer, exists, lastNote, connVars>>

\* subscribe_bspc: the subprocess's output ends, the loop and the thread
\* end, the thread's Sender is dropped
bspc_eof(sub_command) ==
    /\ ProcessAlive
    /\ producer[sub_command] = "running"
    /\ pipe[sub_command] = <<>>
    /\ producer' = [producer EXCEPT ![sub_command] = "done"]
    /\ UNCHANGED <<coreVars, chan, dispatcher, nSent, wmVars, connVars>>

\* the listener, as in Spec, with clients that send nothing supported
wm_client ==
    /\ subscribe_client
    /\ nSent' = nSent

\* an iteration of the server loop in which every bspc command succeeds
server_ok ==
    /\ server
    /\ ~failed'

\* whether producer p still holds its Sender
holds_sender(p) == producer[p] \notin {"done", "panicked"}

\* a loop that ends as soon as the channel is empty
may_return_when_empty == chan = <<>>

\* server: `for state_change in &rx` ends: no message is left and every
\* Sender was dropped
may_return ==
    /\ chan = <<>>
    /\ \A p \in Producers : ~holds_sender(p)

\* server: the loop ends and server returns
server_return ==
    /\ dispatcher = "running"
    /\ may_return
    /\ dispatcher' = "returned"
    /\ UNCHANGED <<coreVars, chan, producer, nSent, wmVars, connVars>>

NextWm ==
    \/ \E sub_command \in BspcSubCommand : bspc_spawn(sub_command)
    \/ server_bind
    \/ \E sub_command \in BspcSubCommand, n \in WmNodes : wm_notify(sub_command, n)
    \/ \E sub_command \in BspcSubCommand : wm_garbage(sub_command)
    \/ \E sub_command \in BspcSubCommand : bspc_read(sub_command)
    \/ \E sub_command \in BspcSubCommand : bspc_eof(sub_command)
    \/ wm_client
    \/ server_ok
    \/ server_return

SpecWm == InitWm /\ [][NextWm]_vars

(***************************************************************************)
(* The listener in detail: clients connect, write and close when they      *)
(* please; the listener takes the connections in the order they were made  *)
(* and reads each one to its end before it accepts the next.               *)
(***************************************************************************)
InitConn == Init

\* the payloads of the clients of this specification: those of Spec, and
\* node identifiers that are empty or end with a blank
ConnPayloads ==
    Payloads \cup {TAG, TAG \o <<Digits[1], " ">>}

\* UnixStream::connect and write_all by a client, which keeps its end open;
\* `read` tells whether what it wrote can be read as text
connect(message, read) ==
    /\ ProcessAlive
    /\ nSent + Len(conns) < MaxConns
    /\ read \/ message = <<>>
    /\ conns' = Append(conns, [message |-> message, read |-> read, closed |-> FALSE])
    /\ UNCHANGED <<coreVars, chan, dispatcher, producer, nSent, wmVars, lastConn>>

\* a client closes its end of the connection
close(i) ==
    /\ ProcessAlive
    /\ i \in DOMAIN conns
    /\ ~conns[i].closed
    /\ conns' = [conns EXCEPT ![i].closed = TRUE]
    /\ UNCHANGED <<coreVars, chan, dispatcher, producer, nSent, wmVars, lastConn>>

\* subscribe_client: one iteration of the loop over listener.incoming():
\* the oldest connection is accepted and handle_client_stream runs inline;
\* read_to_string returns when the client has closed
incoming ==
    /\ ProcessAlive
    /\ producer["Client"] = "running"
    /\ conns # <<>>
    /\ Head(conns).closed
    /\ LET stream == Head(conns)
           evs    == IF stream.read THEN handle_client_stream(stream.message) ELSE <<>>
       IN /\ send("Client", evs)
          /\ producer' = [producer EXCEPT
                             !["Client"] = IF stream.read THEN "running" ELSE "panicked"]
          /\ lastConn' = [read |-> stream.read, message |-> stream.message,
                          sent |-> evs,
                          prev |-> CASE lastConn = NoConn -> "none"
                                     [] ~lastConn.read -> "failed"
                                     [] lastConn.sent = <<>> -> "discarded"
                                     [] OTHER -> "sent"]
    /\ conns' = Tail(conns)
    /\ UNCHANGED <<coreVars, dispatcher, wmVars>>

NextConn ==
    \/ \E message \in ConnPayloads, read \in BOOLEAN : connect(message, read)
    \/ \E i \in 1..MaxConns : close(i)
    \/ incoming
    \/ server_ok

SpecConn == InitConn /\ [][NextConn]_vars

(***************************************************************************)
(* The server loop in two steps, the commands of an iteration taking time, *)
(* under fair scheduling of the main thread and with commands that         *)
(* succeed.                                                                *)
(***************************************************************************)
InitLive == Init

\* server: an iteration receives a message and starts its commands
server_begin ==
    /\ ~busy
    /\ server_iteration
    /\ ~failed'
    /\ busy' = TRUE

\* server: the commands of the iteration have returned
server_end ==
    /\ dispatcher = "running"
    /\ busy
    /\ busy' = FALSE
    /\ UNCHANGED <<state, chan, dispatcher, producer, hidden, failed, last, last2,
                   known, requested, nSent, nApplied, evenShows, wmVars, connVars>>

\* the producers of Spec, up to MaxLiveEvents events
live_bspc(sub_command) ==
    /\ nSent < MaxLiveEvents
    /\ subscribe_bspc(sub_command)

live_client ==
    /\ nSent < MaxLiveEvents
    /\ subscribe_client

NextLive ==
    \/ \E sub_command \in BspcSubCommand : live_bspc(sub_command)
    \/ live_client
    \/ server_begin
    \/ server_end

\* the main thread is scheduled again and again
Fairness ==
    /\ WF_vars(server_begin)
    /\ WF_vars(server_end)

SpecLive == InitLive /\ [][NextLive]_vars /\ Fairness

(***************************************************************************)
(* Properties.  last and last2 describe the two latest iterations of the   *)
(* server loop: the event, the State before it and the commands run.       *)
(***************************************************************************)
\* the nodes in either set of State s
tracked(s) == s.tagged_nodes \cup s.untagged_nodes

\* the kinds of the commands bspc_reset_border_width runs
ResetKinds == {"config_border_width", "config_node_border_width"}

\* C1: after every event the sets tagged and untagged are disjoint.
C1_Disjoint ==
    state.tagged_nodes \cap state.untagged_nodes = {}

\* whether the commands of an iteration that toggled n's tag respect the
\* asymmetry: moving n out of tagged runs only the emphasis-reset commands
toggle_commands_ok(step) ==
    step.ev.node \in step.pre.tagged_nodes =>
        \A i \in DOMAIN step.cmds : step.cmds[i].kind \in ResetKinds

\* C2 (as claimed): two ToggleTag(n) in succession return n to its original
\* membership (tagged, untagged or neither), leave every other node and
\* tagVisible unchanged, and the toggle that moves n out of tagged runs only
\* the emphasis-reset commands.
C2_RoundTrip ==
    (last.ev.type = "TagNode" /\ last2.ev = last.ev) =>
        LET n == last.ev.node
        IN /\ (n \in state.tagged_nodes <=> n \in last2.pre.tagged_nodes)
           /\ (n \in state.untagged_nodes <=> n \in last2.pre.untagged_nodes)
           /\ state.tagged_nodes \ {n} = last2.pre.tagged_nodes \ {n}
           /\ state.untagged_nodes \ {n} = last2.pre.untagged_nodes \ {n}
           /\ state.tag_shown = last2.pre.tag_shown
           /\ toggle_commands_ok(last2)
           /\ toggle_commands_ok(last)

\* C2 (amended): two ToggleTag(n) in succession leave n in tagged iff it was
\* in tagged before them, and in untagged iff it was not in tagged: a node
\* that was in exactly one set is back in it, a node that was in neither set
\* ends in untagged.  Every other node and tagVisible are unchanged, and the
\* toggle that moves n out of tagged runs only the emphasis-reset commands.
C2_RoundTripOfTagged ==
    (last.ev.type = "TagNode" /\ last2.ev = last.ev) =>
        LET n == last.ev.node
        IN /\ (n \in state.tagged_nodes <=> n \in last2.pre.tagged_nodes)
           /\ (n \in state.untagged_nodes <=> n \notin last2.pre.tagged_nodes)
           /\ state.tagged_nodes \ {n} = last2.pre.tagged_nodes \ {n}
           /\ state.untagged_nodes \ {n} = last2.pre.untagged_nodes \ {n}
           /\ state.tag_shown = last2.pre.tag_shown
           /\ toggle_commands_ok(last2)
           /\ toggle_commands_ok(last)

\* C2 witness: an untagged node was tagged and untagged again.
C2_Witness ==
    /\ last.ev.type = "TagNode"
    /\ last2.ev = last.ev
    /\ last.ev.node \in last2.pre.untagged_nodes
    /\ last.ev.node \in state.untagged_nodes
    /\ Len(last.cmds) = 2

\* C3: as long as every command has succeeded, each tagged node is hidden
\* exactly when tagVisible is false.
C3_GroupVisibility ==
    ~failed =>
        \A n \in state.tagged_nodes : (n \in hidden <=> ~state.tag_shown)

\* C4: a ToggleTagVisibility event flips tagVisible, leaves both sets
\* unchanged and runs exactly one toggle-visibility command for each node in
\* tagged and no other command.
C4_ShowTag ==
    last.ev.type = "ShowTag" =>
        /\ state.tag_shown = ~last.pre.tag_shown
        /\ state.tagged_nodes = last.pre.tagged_nodes
        /\ state.untagged_nodes = last.pre.untagged_nodes
        /\ Len(last.cmds) = Cardinality(last.pre.tagged_nodes)
        /\ \A i \in DOMAIN last.cmds : last.cmds[i].kind = "node_hidden"
        /\ {last.cmds[i].node : i \in DOMAIN last.cmds} = last.pre.tagged_nodes

\* C5: ToggleTag(n) for n in neither set is accepted without error: n is
\* put in tagged and not in untagged, and the set-emphasis command runs for
\* n, followed by a visibility toggle for n iff tagVisible is false.
C5_UntrackedToggle ==
    (last.ev.type = "TagNode" /\ last.ev.node \notin tracked(last.pre)) =>
        LET n == last.ev.node
        IN /\ ~last.panicked
           /\ n \in state.tagged_nodes
           /\ n \notin state.untagged_nodes
           /\ Len(last.cmds) = (IF state.tag_shown THEN 1 ELSE 2)
           /\ last.cmds[1] = [kind |-> "config_node_border_width", node |-> n,
                              width |-> TaggedBorderWidth]
           /\ ~state.tag_shown =>
                last.cmds[2] = [kind |-> "node_hidden", node |-> n, width |-> 0]

\* C6 (as claimed): a node that is not known to exist (never added, or
\* removed since it was last added) is in neither set.
C6_UnknownInNeither ==
    tracked(state) \subseteq known

\* C6 (amended): a node for which neither an AddNode nor a ToggleTag has
\* been processed since the start or since its last RemoveNode is in neither
\* set.
C6_UntouchedInNeither ==
    tracked(state) \subseteq (known \cup requested)

\* C6 witness: a tagged node was removed.
C6_Witness ==
    /\ last.ev.type = "RemoveNode"
    /\ last.ev.node \in last.pre.tagged_nodes
    /\ last.ev.node \notin (known \cup requested)

\* C7: AddNode(n) changes nothing when n is already in tagged or untagged,
\* puts an untracked n in untagged only, and runs no command.
C7_AddNode ==
    last.ev.type = "AddNode" =>
        LET n == last.ev.node
        IN /\ last.cmds = <<>>
           /\ state.tag_shown = last.pre.tag_shown
           /\ state.tagged_nodes = last.pre.tagged_nodes
           /\ state.untagged_nodes =
                (IF n \in tracked(last.pre) THEN last.pre.untagged_nodes
                 ELSE last.pre.untagged_nodes \cup {n})

\* C8: RemoveNode(n) takes n out of both sets, changes no other node's
\* membership nor tagVisible and runs no command; with n in neither set it
\* changes nothing, so a second RemoveNode(n) in a row changes nothing.
C8_RemoveNode ==
    last.ev.type = "RemoveNode" =>
        LET n == last.ev.node
        IN /\ state.tagged_nodes = last.pre.tagged_nodes \ {n}
           /\ state.untagged_nodes = last.pre.untagged_nodes \ {n}
           /\ state.tag_shown = last.pre.tag_shown
           /\ last.cmds = <<>>
           /\ ~last.panicked
           /\ n \notin tracked(last.pre) => state = last.pre
           /\ last2.ev = last.ev => state = last.pre

\* C8 witness: a tagged node was removed twice in a row.
C8_Witness ==
    /\ last.ev.type = "RemoveNode"
    /\ last2.ev = last.ev
    /\ last.ev.node \in last2.pre.tagged_nodes
    /\ last.ev.node \notin tracked(state)

\* C9: the events are applied in the order they were sent on the channel,
\* each once: the latest event applied is the nApplied-th sent, the pending
\* ones are the following ones in sending order, whoever sent them, so the
\* events of one producer are pending in the order it sent them.
C9_Fifo ==
    /\ last.seq = nApplied
    /\ nSent = nApplied + Len(chan)
    /\ \A i \in DOMAIN chan : chan[i].seq = nApplied + i
    /\ \A i, j \in DOMAIN chan :
          (chan[i].from = chan[j].from /\ chan[i].seq < chan[j].seq) => i < j

\* C9 witness: with events of two producers pending, the loop has applied
\* the first and the other is next.
C9_Witness ==
    /\ nApplied = 2
    /\ Len(chan) = 2
    /\ chan[1].from # chan[2].from
    /\ last.ev.type = "AddNode"
    /\ last2.ev.type = "TagNode"

\* C10: a bspc command that fails never stops the server loop.
C10_FailedCommandNeverStops ==
    failed => dispatcher = "running"

\* C12: an I/O error while reading a client's request never stops the
\* listener: it goes on accepting connections.
C12_ListenerSurvivesReadError ==
    producer["Client"] # "panicked"

\* C18: tagVisible is true at the start and only a ToggleTagVisibility
\* event changes it: it is true iff an even number of them was applied.
C18_TagShownParity ==
    /\ state.tag_shown = evenShows
    /\ nApplied = 0 => state.tag_shown
    /\ last.ev.type \in {"AddNode", "RemoveNode", "TagNode"} =>
          state.tag_shown = last.pre.tag_shown

\* C18 witness: the tag was hidden, a node was tagged, the tag was shown
\* again.
C18_Witness ==
    /\ nApplied = 3
    /\ last.ev.type = "ShowTag"
    /\ last2.ev.type = "TagNode"
    /\ ~last2.pre.tag_shown
    /\ state.tag_shown

\* C11: the add and the remove of a node reach the dispatcher in the order
\* the window manager emitted them: once the last notification about n, a
\* node_remove, and everything before it were processed, and n was not
\* tagged again, n is in neither set.
C11_RemoveAfterAdd ==
    \A n \in Nodes :
        ( /\ lastNote[n] = "NodeRemove"
          /\ \A sub_command \in BspcSubCommand : pipe[sub_command] = <<>>
          /\ chan = <<>>
          /\ n \notin requested )
        => n \notin state.tagged_nodes \cup state.untagged_nodes

\* handling the oldest unread line of an adapter: it stays alive, it sends
\* one event carrying the field at index 4 (node_add) or 3 (node_remove)
\* if the line has one, and nothing otherwise
C16_Line(sub_command) ==
    LET entry  == Head(pipe[sub_command])
        fields == split(entry.line)
        index  == IF sub_command = "NodeAdd" THEN 4 ELSE 3
        type   == IF sub_command = "NodeAdd" THEN "AddNode" ELSE "RemoveNode"
    IN ( /\ pipe[sub_command] # <<>>
         /\ pipe'[sub_command] = Tail(pipe[sub_command]) )
       => /\ producer'[sub_command] = "running"
          /\ IF entry.read /\ Len(fields) > index
             THEN /\ Len(chan') = Len(chan) + 1
                  /\ SubSeq(chan', 1, Len(chan)) = chan
                  /\ chan'[Len(chan')].ev = [type |-> type, node |-> fields[index + 1]]
             ELSE chan' = chan

\* C16: no line stops an adapter: a line with the field at the kind's
\* position sends exactly one event carrying it, any other line sends
\* nothing, and the adapter stops only when its input has ended.
C16_AdapterSurvivesLines ==
    [][\A sub_command \in BspcSubCommand :
          /\ C16_Line(sub_command)
          /\ ( /\ producer[sub_command] = "running"
               /\ producer'[sub_command] # "running" )
             => ( /\ pipe[sub_command] = <<>>
                  /\ producer'[sub_command] = "done" )]_vars

\* C16 witness: the node_add adapter skipped a line and sent the node of
\* the line after it.
C16_Witness ==
    /\ lastLine.sub_command = "NodeAdd"
    /\ lastLine.prev = "skipped"
    /\ lastLine.sent = <<[type |-> "AddNode", node |-> <<"1">>]>>
    /\ producer["NodeAdd"] = "running"

\* C17: a failure at startup ends the process: with an adapter whose
\* subprocess was not spawned, or without the socket bound, the server
\* applies no event.
C17_StartupFailureFatal ==
    [][( \/ \E sub_command \in BspcSubCommand : producer[sub_command] = "panicked"
         \/ producer["Client"] = "unbound" )
       => nApplied' = nApplied]_vars

\* C20: the server returns only when every producer has ended and nothing
\* is pending, having applied everything that was sent; with an empty
\* channel the loop takes no step, and with a producer alive it does not
\* return.
C20_ReturnsWhenAllSendersDropped ==
    /\ dispatcher = "returned" =>
          /\ \A p \in Producers : producer[p] \in {"done", "panicked"}
          /\ chan = <<>>
          /\ nApplied = nSent
    /\ (dispatcher = "running" /\ chan = <<>>) => ~ENABLED server_ok
    /\ ( /\ dispatcher = "running"
         /\ \E p \in Producers : producer[p] \in {"starting", "running"} )
       => ~ENABLED server_return

\* C20 witness: both adapters reached the end of their input, the listener
\* ended, and the server returned after applying an event.
C20_Witness ==
    /\ dispatcher = "returned"
    /\ producer["NodeAdd"] = "done"
    /\ producer["NodeRemove"] = "done"
    /\ nApplied >= 1

\* whether payload m is `show`, and whether it starts with `tag `
is_show(m) == m = <<"s", "h", "o", "w">>
has_tag_prefix(m) == Len(m) >= 4 /\ SubSeq(m, 1, 4) = <<"t", "a", "g", " ">>

\* a step in which the listener is done with the oldest connection
handled == conns # <<>> /\ conns' = Tail(conns)

\* C13: a client that has connected and not yet closed does not keep the
\* listener from serving a request that is complete: while the process and
\* the listener live and some client has written `show` or `tag <id>` and
\* closed, the listener can take a step.
C13_AcceptNeverBlocked ==
    ( /\ dispatcher = "running"
      /\ producer["Client"] = "running"
      /\ Len(chan) < MaxPending
      /\ nSent < MaxEvents
      /\ \E i \in DOMAIN conns :
            /\ conns[i].closed
            /\ conns[i].read
            /\ is_show(conns[i].message) \/ has_tag_prefix(conns[i].message) )
    => ENABLED incoming

\* C14: a payload that is neither `show` nor prefixed by `tag ` sends no
\* event, changes nothing of the dispatcher, and leaves the listener and the
\* process running.
C14_UnsupportedDiscarded ==
    [][( /\ handled
         /\ Head(conns).read
         /\ ~is_show(Head(conns).message)
         /\ ~has_tag_prefix(Head(conns).message) )
       => /\ chan' = chan
          /\ nSent' = nSent
          /\ state' = state
          /\ hidden' = hidden
          /\ nApplied' = nApplied
          /\ dispatcher' = dispatcher
          /\ producer'["Client"] = "running"]_vars

\* C14 witness: the listener discarded a payload and served the request
\* that came after it.
C14_Witness ==
    /\ lastConn.prev = "discarded"
    /\ lastConn.sent = <<[type |-> "ShowTag", node |-> <<>>]>>
    /\ producer["Client"] = "running"
    /\ dispatcher = "running"

\* C15: a connection sends at most one event, chosen by its whole payload:
\* ShowTag for `show`, TagNode of everything after `tag ` for a payload with
\* that prefix, nothing for any other.
C15_OneEventPerConnection ==
    [][handled =>
        LET m == Head(conns).message
        IN IF ~Head(conns).read THEN chan' = chan
           ELSE IF is_show(m)
                THEN /\ Len(chan') = Len(chan) + 1
                     /\ SubSeq(chan', 1, Len(chan)) = chan
                     /\ chan'[Len(chan')].ev = [type |-> "ShowTag", node |-> <<>>]
           ELSE IF has_tag_prefix(m)
                THEN /\ Len(chan') = Len(chan) + 1
                     /\ SubSeq(chan', 1, Len(chan)) = chan
                     /\ chan'[Len(chan')].ev =
                           [type |-> "TagNode", node |-> SubSeq(m, 5, Len(m))]
           ELSE chan' = chan]_vars

\* C15 witness: a request to tag an identifier that ends with a blank was
\* forwarded with the blank.
C15_Witness ==
    /\ lastConn.message = <<"t", "a", "g", " ", "1", " ">>
    /\ lastConn.sent = <<[type |-> "TagNode", node |-> <<"1", " ">>]>>
    /\ chan # <<>>
    /\ chan[Len(chan)].ev.node = <<"1", " ">>

\* a producer that is running can send, whatever is pending and whether or
\* not the dispatcher is executing commands
C19_NeverBlocks ==
    nSent < MaxLiveEvents =>
        /\ \A sub_command \in BspcSubCommand :
              producer[sub_command] = "running" =>
                  ENABLED (live_bspc(sub_command) /\ nSent' = nSent + 1)
        /\ producer["Client"] = "running" =>
              ENABLED (live_client /\ nSent' = nSent + 1)

\* C19: sending never blocks, and with the main thread scheduled fairly and
\* commands that succeed every event sent is eventually applied.
C19_EverySentEventApplied ==
    /\ []C19_NeverBlocks
    /\ \A k \in 1..MaxLiveEvents : (nSent >= k) ~> (nApplied >= k)

\* C19 witness: an event was sent while the dispatcher was executing the
\* commands of the event before it.
C19_Witness ==
    /\ busy
    /\ nApplied = 1
    /\ Len(chan) = 1
    /\ chan[1].while_busy
    /\ chan[1].seq = 2

====
